---- MODULE Spec2Model ----
(***************************************************************************)
(* The streaming delta consumers of tools/translate.py (suppress-and-      *)
(* replay: thinking text is withheld from stdout) and of                   *)
(* tools/coding_assistant.py (pass-through: every fragment is echoed and   *)
(* collected), as one state machine.  A run executes main() of one of the  *)
(* two programs; pc is the position inside main(), and one action models   *)
(* one statement group of main().                                          *)
(*                                                                         *)
(* Text is a sequence of lexical pieces; the two markers are single        *)
(* pieces, so `"<think>" in chunk_content` is a search through the pieces. *)
(* An optional value (float | None, CompletionUsage | None) is a sequence  *)
(* of length 0 (None) or 1.                                                *)
(***************************************************************************)
EXTENDS Integers, Sequences, FiniteSets, TLC

VARIABLES variant, pc, clock, stream, tr, ca

vars == <<variant, pc, clock, stream, tr, ca>>

----------------------------------------------------------------------------
(* Bounds of the model *)

MaxChunks == 3

MaxClock == 2

(* longest prompt-processing and generation time of the runs whose        *)
(* metrics are computed from given stamps                                  *)
MaxDuration == 5

(* longest thinking time, in seconds, handed to the renderer *)
MaxSeconds == 3700

----------------------------------------------------------------------------
(* Values *)

None == <<>>

Some(x) == <<x>>

Val(o) == o[1]

OPEN == "<think>"

CLOSE == "</think>"

NEWLINE == "\n"

PRE_THINKING == 0

THINKING == 1

END_THINKING == 2

DONE_THINKING == 3

(* chunk.usage of the fragment that reports usage *)
Usage == [total_tokens |-> 150, prompt_tokens |-> 100, completion_tokens |-> 50]

(* ChatCompletionChunk: choices is a list, choices[0].delta.content is     *)
(* str | None, usage is CompletionUsage | None                             *)
Chunk(choices, usage) == [choices |-> choices, usage |-> usage]

Choice(content) == [delta |-> [content |-> content]]

TextChunk(text, usage) == Chunk(<<Choice(Some(text))>>, usage)

Texts ==
    { <<>>, <<"a">>, <<OPEN>>, <<"b", CLOSE>>, <<OPEN, "c", CLOSE>> }

(* The fragments the server may send: a keepalive without choices, the     *)
(* usage-only fragment, a delta with null content, text deltas, and a text *)
(* delta that also carries usage.                                          *)
Chunks ==
    { Chunk(<<>>, None), Chunk(<<>>, Some(Usage)), Chunk(<<Choice(None)>>, None) }
    \cup { TextChunk(t, None) : t \in Texts }
    \cup { TextChunk(<<"a">>, Some(Usage)) }

(* `marker in text` *)
Contains(marker, text) == \E i \in 1..Len(text) : text[i] = marker

(* `if choices:` and `chunk_content is not None` *)
HasContent(chunk) ==
    /\ Len(chunk.choices) > 0
    /\ chunk.choices[1].delta.content # None

(* choices[0].delta.content of a fragment that passed both tests *)
Content(chunk) == Val(chunk.choices[1].delta.content)

(* Truthy as if a fragment without choices were false *)
Truthy_NonEmpty(chunk) == chunk.choices # <<>>

(* truth value of a ChatCompletionChunk object: the class defines neither  *)
(* __bool__ nor __len__, so every fragment the stream yields is true       *)
Truthy(chunk) == TRUE

(* time.time() *)
Now == clock

(* the fragment the loop body is working on *)
chunk == stream[Len(stream)]

----------------------------------------------------------------------------
(* Initial state: main() has been entered, nothing has been stamped *)

TrInit ==
    [ start_time     |-> None,
      response_start |-> None,
      think_start    |-> None,
      think_end      |-> None,
      thinking_state |-> PRE_THINKING,
      usage          |-> None,
      end_time       |-> None,
      thinking_time  |-> 0,
      stdout         |-> <<>>,
      stderr         |-> <<>> ]

CaInit ==
    [ start_time         |-> None,
      response_start     |-> None,
      think_start        |-> None,
      think_end          |-> None,
      usage              |-> None,
      collected_response |-> <<>>,
      end_time           |-> None,
      thinking_time      |-> None,
      stdout             |-> <<>>,
      stderr             |-> <<>>,
      no_browser         |-> None,
      markdown_file      |-> None,
      html_file          |-> None,
      output             |-> None,
      browser            |-> None ]

Init ==
    /\ variant \in {"translate", "coding_assistant"}
    /\ pc = "request"
    /\ clock = 0
    /\ stream = <<>>
    /\ tr = TrInit
    /\ ca = CaInit

----------------------------------------------------------------------------
(* The clock: time passes between any two statements, never backwards *)

Tick ==
    /\ clock < MaxClock
    /\ clock' = clock + 1
    /\ UNCHANGED <<variant, pc, stream, tr, ca>>

----------------------------------------------------------------------------
(* translate.py main() *)

(* lines 93-108: stamp start_time, issue the request *)
T_Request ==
    /\ variant = "translate"
    /\ pc = "request"
    /\ tr' = [tr EXCEPT !.start_time = Some(Now)]
    /\ pc' = "loop"
    /\ UNCHANGED <<variant, clock, stream, ca>>

(* T_Lag that never leaves END_THINKING *)
T_Lag_Never(state) == state

(* T_Lag that tests `!= PRE_THINKING` *)
T_Lag_Eager(state) ==
    IF state # PRE_THINKING THEN DONE_THINKING ELSE state

(* lines 112-113 *)
T_Lag(state) ==
    IF state = END_THINKING THEN DONE_THINKING ELSE state

(* T_Next with lines 112-113 moved below `chunk_content is not None` *)
T_Next_LagOnContent ==
    /\ variant = "translate"
    /\ pc = "loop"
    /\ Len(stream) < MaxChunks
    /\ \E c \in Chunks :
         /\ stream' = Append(stream, c)
         /\ tr' = [tr EXCEPT !.thinking_state =
                                 IF HasContent(c) /\ tr.thinking_state = END_THINKING
                                 THEN DONE_THINKING
                                 ELSE tr.thinking_state,
                             !.usage = c.usage]
         /\ pc' = IF HasContent(c) THEN "response_start" ELSE "loop"
    /\ UNCHANGED <<variant, clock, ca>>

(* lines 109-118: take the next fragment, advance END_THINKING, keep its   *)
(* usage, and look for content                                             *)
T_Next ==
    /\ variant = "translate"
    /\ pc = "loop"
    /\ Len(stream) < MaxChunks
    /\ \E c \in Chunks :
         /\ stream' = Append(stream, c)
         /\ IF ~Truthy(c)
            THEN /\ pc' = "end"
                 /\ UNCHANGED tr
            ELSE /\ tr' = [tr EXCEPT !.thinking_state = T_Lag(tr.thinking_state),
                                     !.usage = c.usage]
                 /\ pc' = IF HasContent(c) THEN "response_start" ELSE "loop"
    /\ UNCHANGED <<variant, clock, ca>>

(* T_ResponseStart with `if chunk_content:` around it *)
T_ResponseStart_NonEmpty ==
    /\ variant = "translate"
    /\ pc = "response_start"
    /\ tr' = IF tr.response_start = None /\ Content(chunk) # <<>>
             THEN [tr EXCEPT !.response_start = Some(Now)]
             ELSE tr
    /\ pc' = "think_open"
    /\ UNCHANGED <<variant, clock, stream, ca>>

(* lines 119-120 *)
T_ResponseStart ==
    /\ variant = "translate"
    /\ pc = "response_start"
    /\ tr' = IF tr.response_start = None
             THEN [tr EXCEPT !.response_start = Some(Now)]
             ELSE tr
    /\ pc' = "think_open"
    /\ UNCHANGED <<variant, clock, stream, ca>>

(* T_OnOpen that leaves the state alone *)
T_OnOpen_Stay(state) == state

(* lines 124-125 *)
T_OnOpen(state) ==
    IF state = PRE_THINKING THEN THINKING ELSE state

(* T_ThinkOpen without `and think_start is None` *)
T_ThinkOpen_Restamp ==
    /\ variant = "translate"
    /\ pc = "think_open"
    /\ tr' = IF Contains(OPEN, Content(chunk))
             THEN [tr EXCEPT !.think_start = Some(Now),
                             !.thinking_state = T_OnOpen(tr.thinking_state)]
             ELSE tr
    /\ pc' = "think_close"
    /\ UNCHANGED <<variant, clock, stream, ca>>

(* lines 122-125 *)
T_ThinkOpen ==
    /\ variant = "translate"
    /\ pc = "think_open"
    /\ tr' = IF Contains(OPEN, Content(chunk)) /\ tr.think_start = None
             THEN [tr EXCEPT !.think_start = Some(Now),
                             !.thinking_state = T_OnOpen(tr.thinking_state)]
             ELSE tr
    /\ pc' = "think_close"
    /\ UNCHANGED <<variant, clock, stream, ca>>

(* T_OnClose without the test of line 129 *)
T_OnClose_Unguarded(state) == END_THINKING

(* lines 129-130 *)
T_OnClose(state) ==
    IF state = THINKING THEN END_THINKING ELSE state

(* T_ThinkClose without `and think_end is None` *)
T_ThinkClose_Restamp ==
    /\ variant = "translate"
    /\ pc = "think_close"
    /\ tr' = IF Contains(CLOSE, Content(chunk))
             THEN [tr EXCEPT !.think_end = Some(Now),
                             !.thinking_state = T_OnClose(tr.thinking_state)]
             ELSE tr
    /\ pc' = "print"
    /\ UNCHANGED <<variant, clock, stream, ca>>

(* lines 127-130 *)
T_ThinkClose ==
    /\ variant = "translate"
    /\ pc = "think_close"
    /\ tr' = IF Contains(CLOSE, Content(chunk)) /\ tr.think_end = None
             THEN [tr EXCEPT !.think_end = Some(Now),
                             !.thinking_state = T_OnClose(tr.thinking_state)]
             ELSE tr
    /\ pc' = "print"
    /\ UNCHANGED <<variant, clock, stream, ca>>

(* T_Echo that tests `!= THINKING` *)
T_Echo_AlsoEnd(state) == state # THINKING

(* line 132 *)
T_Echo(state) == state \in {PRE_THINKING, DONE_THINKING}

(* lines 132-133 *)
T_Print ==
    /\ variant = "translate"
    /\ pc = "print"
    /\ tr' = IF T_Echo(tr.thinking_state)
             THEN [tr EXCEPT !.stdout = tr.stdout \o Content(chunk)]
             ELSE tr
    /\ pc' = "loop"
    /\ UNCHANGED <<variant, clock, stream, ca>>

(* T_End with `response_start = start_time` at line 139 *)
T_End_DefaultStart ==
    /\ variant = "translate"
    /\ pc \in {"loop", "end"}
    /\ LET rs == IF tr.response_start = None THEN tr.start_time ELSE tr.response_start
           tt == IF tr.think_start # None /\ tr.think_end # None
                 THEN Val(tr.think_end) - Val(tr.think_start)
                 ELSE 0
       IN tr' = [tr EXCEPT !.stdout = tr.stdout \o <<NEWLINE>>,
                           !.end_time = Some(Now),
                           !.response_start = rs,
                           !.thinking_time = tt]
    /\ pc' = "metrics"
    /\ UNCHANGED <<variant, clock, stream, ca>>

(* lines 109, 134-143: the stream is exhausted; newline, end_time, the     *)
(* default of response_start, thinking_time                                *)
T_End ==
    /\ variant = "translate"
    /\ pc \in {"loop", "end"}
    /\ LET rs == IF tr.response_start = None THEN Some(Now) ELSE tr.response_start
           tt == IF tr.think_start # None /\ tr.think_end # None
                 THEN Val(tr.think_end) - Val(tr.think_start)
                 ELSE 0
       IN tr' = [tr EXCEPT !.stdout = tr.stdout \o <<NEWLINE>>,
                           !.end_time = Some(Now),
                           !.response_start = rs,
                           !.thinking_time = tt]
    /\ pc' = "metrics"
    /\ UNCHANGED <<variant, clock, stream, ca>>

(* lines 146-148 (coding_assistant.py 243-245) on the locals l of a run *)
pp_time(l) == Val(l.response_start) - Val(l.start_time)

(* gen_time taken from the start of the request *)
gen_time_FromStart(l) == Val(l.end_time) - Val(l.start_time)

gen_time(l) == Val(l.end_time) - Val(l.response_start)

total_time(l) == Val(l.end_time) - Val(l.start_time)

(* prompt_tokens / pp_time as "{:.2f}" prints it, in hundredths; no        *)
(* quotient of the token counts and durations used here lies halfway       *)
(* between two hundredths                                                  *)
Rate(tokens, time) == (2 * 100 * tokens + time) \div (2 * time)

(* lines 145-163: the metrics block; a zero pp_time or gen_time raises     *)
(* ZeroDivisionError inside the format arguments, before anything is       *)
(* printed                                                                 *)
T_Metrics ==
    /\ variant = "translate"
    /\ pc = "metrics"
    /\ IF tr.usage # None
       THEN LET usage == Val(tr.usage)
            IN IF pp_time(tr) = 0 \/ gen_time(tr) = 0
               THEN /\ pc' = "raised"
                    /\ UNCHANGED tr
               ELSE /\ tr' = [tr EXCEPT !.stderr = Append(tr.stderr,
                                [ total_tokens      |-> usage.total_tokens,
                                  prompt_tokens     |-> usage.prompt_tokens,
                                  completion_tokens |-> usage.completion_tokens,
                                  total_time        |-> total_time(tr),
                                  thinking_time     |-> tr.thinking_time,
                                  prompt_speed      |-> Rate(usage.prompt_tokens, pp_time(tr)),
                                  generation_speed  |-> Rate(usage.completion_tokens, gen_time(tr)) ])]
                    /\ pc' = "done"
       ELSE /\ pc' = "done"
            /\ UNCHANGED tr
    /\ UNCHANGED <<variant, clock, stream, ca>>

----------------------------------------------------------------------------
(* coding_assistant.py main() *)

(* lines 198-214: stamp start_time, issue the request *)
A_Request ==
    /\ variant = "coding_assistant"
    /\ pc = "request"
    /\ ca' = [ca EXCEPT !.start_time = Some(Now)]
    /\ pc' = "loop"
    /\ UNCHANGED <<variant, clock, stream, tr>>

(* A_Next that stamps response_start on the first fragment of any kind *)
A_Next_StampAnyChunk ==
    /\ variant = "coding_assistant"
    /\ pc = "loop"
    /\ Len(stream) < MaxChunks
    /\ \E c \in Chunks :
         /\ stream' = Append(stream, c)
         /\ ca' = [ca EXCEPT !.usage = c.usage,
                             !.response_start =
                                 IF ca.response_start = None
                                 THEN Some(Now)
                                 ELSE ca.response_start]
         /\ pc' = IF HasContent(c) THEN "response_start" ELSE "loop"
    /\ UNCHANGED <<variant, clock, tr>>

(* lines 215-222: take the next fragment, keep its usage, and look for     *)
(* content                                                                 *)
A_Next ==
    /\ variant = "coding_assistant"
    /\ pc = "loop"
    /\ Len(stream) < MaxChunks
    /\ \E c \in Chunks :
         /\ stream' = Append(stream, c)
         /\ IF ~Truthy(c)
            THEN /\ pc' = "end"
                 /\ UNCHANGED ca
            ELSE /\ ca' = [ca EXCEPT !.usage = c.usage]
                 /\ pc' = IF HasContent(c) THEN "response_start" ELSE "loop"
    /\ UNCHANGED <<variant, clock, tr>>

(* lines 223-224 *)
A_ResponseStart ==
    /\ variant = "coding_assistant"
    /\ pc = "response_start"
    /\ ca' = IF ca.response_start = None
             THEN [ca EXCEPT !.response_start = Some(Now)]
             ELSE ca
    /\ pc' = "think_open"
    /\ UNCHANGED <<variant, clock, stream, tr>>

(* lines 225-226 *)
A_ThinkOpen ==
    /\ variant = "coding_assistant"
    /\ pc = "think_open"
    /\ ca' = IF Contains(OPEN, Content(chunk)) /\ ca.think_start = None
             THEN [ca EXCEPT !.think_start = Some(Now)]
             ELSE ca
    /\ pc' = "think_close"
    /\ UNCHANGED <<variant, clock, stream, tr>>

(* lines 227-228 *)
A_ThinkClose ==
    /\ variant = "coding_assistant"
    /\ pc = "think_close"
    /\ ca' = IF Contains(CLOSE, Content(chunk)) /\ ca.think_end = None
             THEN [ca EXCEPT !.think_end = Some(Now)]
             ELSE ca
    /\ pc' = "print"
    /\ UNCHANGED <<variant, clock, stream, tr>>

(* A_Print with `collected_response = chunk_content` *)
A_Print_Assign ==
    /\ variant = "coding_assistant"
    /\ pc = "print"
    /\ ca' = [ca EXCEPT !.stdout = ca.stdout \o Content(chunk),
                        !.collected_response = Content(chunk)]
    /\ pc' = "loop"
    /\ UNCHANGED <<variant, clock, stream, tr>>

(* lines 229-230 *)
A_Print ==
    /\ variant = "coding_assistant"
    /\ pc = "print"
    /\ ca' = [ca EXCEPT !.stdout = ca.stdout \o Content(chunk),
                        !.collected_response = ca.collected_response \o Content(chunk)]
    /\ pc' = "loop"
    /\ UNCHANGED <<variant, clock, stream, tr>>

(* A_End without `if response_start is None` *)
A_End_Overwrite ==
    /\ variant = "coding_assistant"
    /\ pc \in {"loop", "end"}
    /\ LET tt == IF ca.think_start # None /\ ca.think_end # None
                 THEN Some(Val(ca.think_end) - Val(ca.think_start))
                 ELSE None
       IN ca' = [ca EXCEPT !.stdout = ca.stdout \o <<NEWLINE>>,
                           !.end_time = Some(Now),
                           !.response_start = Some(Now),
                           !.thinking_time = tt]
    /\ pc' = "metrics"
    /\ UNCHANGED <<variant, clock, stream, tr>>

(* lines 215, 231-240: the stream is exhausted; newline, end_time, the     *)
(* default of response_start, thinking_time                                *)
A_End ==
    /\ variant = "coding_assistant"
    /\ pc \in {"loop", "end"}
    /\ LET rs == IF ca.response_start = None THEN Some(Now) ELSE ca.response_start
           tt == IF ca.think_start # None /\ ca.think_end # None
                 THEN Some(Val(ca.think_end) - Val(ca.think_start))
                 ELSE None
       IN ca' = [ca EXCEPT !.stdout = ca.stdout \o <<NEWLINE>>,
                           !.end_time = Some(Now),
                           !.response_start = rs,
                           !.thinking_time = tt]
    /\ pc' = "metrics"
    /\ UNCHANGED <<variant, clock, stream, tr>>

(* lines 242-257: the metrics block; a zero pp_time or gen_time raises     *)
(* ZeroDivisionError inside the format arguments, before anything is       *)
(* printed.  Line 259 is reached otherwise.                                *)
A_Metrics ==
    /\ variant = "coding_assistant"
    /\ pc = "metrics"
    /\ IF ca.usage # None
       THEN LET usage == Val(ca.usage)
            IN IF pp_time(ca) = 0 \/ gen_time(ca) = 0
               THEN /\ pc' = "raised"
                    /\ UNCHANGED ca
               ELSE /\ ca' = [ca EXCEPT !.stderr = Append(ca.stderr,
                                [ total_tokens      |-> usage.total_tokens,
                                  prompt_tokens     |-> usage.prompt_tokens,
                                  completion_tokens |-> usage.completion_tokens,
                                  total_time        |-> total_time(ca),
                                  prompt_speed      |-> Rate(usage.prompt_tokens, pp_time(ca)),
                                  generation_speed  |-> Rate(usage.completion_tokens, gen_time(ca)) ])]
                    /\ pc' = "render"
       ELSE /\ pc' = "render"
            /\ UNCHANGED ca
    /\ UNCHANGED <<variant, clock, stream, tr>>

----------------------------------------------------------------------------
(* coding_assistant.py: format_duration and replace_think_tag.  A string   *)
(* is a sequence of characters or of longer pieces of text.                *)

Digit(d) == <<"0", "1", "2", "3", "4", "5", "6", "7", "8", "9">>[d + 1]

(* str(n) of an int, as the f-strings of format_duration produce it *)
RECURSIVE Decimal(_)
Decimal(n) ==
    IF n < 0 THEN <<"-">> \o Decimal(-n)
    ELSE IF n < 10 THEN <<Digit(n)>>
    ELSE Decimal(n \div 10) \o <<Digit(n % 10)>>

(* line 69, int(seconds): durations are whole numbers of clock units here, *)
(* which int() leaves as they are                                          *)
ToInt(seconds) == seconds

(* format_duration without the test of line 74 *)
format_duration_AlwaysSeconds(seconds) ==
    LET s == ToInt(seconds)
    IN IF s < 60
       THEN Decimal(s) \o <<"s">>
       ELSE IF s < 3600
       THEN Decimal(s \div 60) \o <<"m">> \o Decimal(s % 60) \o <<"s">>
       ELSE Decimal(s \div 3600) \o <<"h">>
            \o Decimal((s % 3600) \div 60) \o <<"m">>
            \o Decimal((s % 3600) % 60) \o <<"s">>

(* lines 68-83 *)
format_duration(seconds) ==
    LET s == ToInt(seconds)
    IN IF s < 60
       THEN Decimal(s) \o <<"s">>
       ELSE IF s < 3600
       THEN LET minutes           == s \div 60
                remaining_seconds == s % 60
            IN IF remaining_seconds > 0
               THEN Decimal(minutes) \o <<"m">> \o Decimal(remaining_seconds) \o <<"s">>
               ELSE Decimal(minutes) \o <<"m">>
       ELSE LET hours     == s \div 3600
                remaining == s % 3600
                minutes   == remaining \div 60
                secs      == remaining % 60
            IN (IF hours > 0 THEN Decimal(hours) \o <<"h">> ELSE <<>>)
               \o (IF minutes > 0 \/ hours = 0 THEN Decimal(minutes) \o <<"m">> ELSE <<>>)
               \o (IF secs > 0 \/ (minutes = 0 /\ hours = 0)
                   THEN Decimal(secs) \o <<"s">>
                   ELSE <<>>)

(* HTML as bytes: a sequence of tokens, which are start tags, end tags,    *)
(* void tags (written <br> or <br/>) and text                              *)
StartTag(name) == [k |-> "start", v |-> name, slash |-> FALSE]

EndTag(name) == [k |-> "end", v |-> name, slash |-> FALSE]

VoidTag(name, slash) == [k |-> "void", v |-> name, slash |-> slash]

Text(string) == [k |-> "text", v |-> string, slash |-> FALSE]

(* The parsed document: a sequence of nodes; an element has children *)
Element(name, kids) == [k |-> "element", v |-> name, kids |-> kids]

VoidElement(name) == [k |-> "void", v |-> name, kids |-> <<>>]

TextNode(string) == [k |-> "text", v |-> string, kids |-> <<>>]

(* BeautifulSoup(html, "html.parser") on well-formed input: the nodes that *)
(* start at token i, up to the end tag that closes their parent            *)
RECURSIVE ParseFrom(_, _)
ParseFrom(html, i) ==
    IF i > Len(html) \/ html[i].k = "end"
    THEN [nodes |-> <<>>, next |-> i]
    ELSE IF html[i].k = "start"
    THEN LET inner == ParseFrom(html, i + 1)
             after == ParseFrom(html, inner.next + 1)
         IN [nodes |-> <<Element(html[i].v, inner.nodes)>> \o after.nodes,
             next  |-> after.next]
    ELSE LET after == ParseFrom(html, i + 1)
             node  == IF html[i].k = "void"
                      THEN VoidElement(html[i].v)
                      ELSE TextNode(html[i].v)
         IN [nodes |-> <<node>> \o after.nodes, next |-> after.next]

Parse(html) == ParseFrom(html, 1).nodes

(* str(soup) and decode_contents(): a void element is written with a slash *)
RECURSIVE Serialise(_)
Serialise(nodes) ==
    IF nodes = <<>>
    THEN <<>>
    ELSE LET n == Head(nodes)
             t == IF n.k = "element"
                  THEN <<StartTag(n.v)>> \o Serialise(n.kids) \o <<EndTag(n.v)>>
                  ELSE IF n.k = "void"
                  THEN <<VoidTag(n.v, TRUE)>>
                  ELSE <<Text(n.v)>>
         IN t \o Serialise(Tail(nodes))

(* line 100, soup.find("think") finds an element *)
RECURSIVE HasThink(_)
HasThink(nodes) ==
    \E i \in 1..Len(nodes) :
        /\ nodes[i].k = "element"
        /\ (nodes[i].v = "think" \/ HasThink(nodes[i].kids))

THOUGHT_PROCESS == <<"U+1F4A1", " Thought Process">>

(* summary_string with `if thinking_time:` at line 108 *)
summary_string_Truthy(thinking_time) ==
    IF thinking_time # None /\ Val(thinking_time) # 0
    THEN THOUGHT_PROCESS
         \o <<" (thought for ">> \o format_duration(Val(thinking_time)) \o <<")">>
    ELSE THOUGHT_PROCESS

(* lines 107-109, summary.string *)
summary_string(thinking_time) ==
    IF thinking_time # None
    THEN THOUGHT_PROCESS
         \o <<" (thought for ">> \o format_duration(Val(thinking_time)) \o <<")">>
    ELSE THOUGHT_PROCESS

(* lines 104-114: the details element built for the think element found *)
details(think, thinking_time) ==
    Element("details",
            << Element("summary", <<TextNode(summary_string(thinking_time))>>),
               Element("div", Parse(Serialise(think.kids))) >>)

(* lines 100 and 116: the first think element in document order is         *)
(* replaced where it stands                                                *)
RECURSIVE replace_with(_, _)
replace_with(nodes, thinking_time) ==
    IF nodes = <<>>
    THEN <<>>
    ELSE LET n == Head(nodes)
         IN IF n.k = "element" /\ n.v = "think"
            THEN <<details(n, thinking_time)>> \o Tail(nodes)
            ELSE IF n.k = "element" /\ HasThink(n.kids)
            THEN <<[n EXCEPT !.kids = replace_with(n.kids, thinking_time)]>>
                 \o Tail(nodes)
            ELSE <<n>> \o replace_with(Tail(nodes), thinking_time)

(* replace_think_tag that returns str(soup) on line 102 too *)
replace_think_tag_Reserialise(html_data, thinking_time) ==
    Serialise(replace_with(Parse(html_data), thinking_time))

(* lines 97-118 *)
replace_think_tag(html_data, thinking_time) ==
    LET soup == Parse(html_data)
    IN IF ~HasThink(soup)
       THEN html_data
       ELSE Serialise(replace_with(soup, thinking_time))

(* main() of coding_assistant.py from line 259 on.  A temporary file is    *)
(* None while it does not exist and Some(content) while it does; output is *)
(* the CompletedProcess of pandoc; browser is what chromium was shown.     *)

(* What pandoc may write for a response: with and without a think element, *)
(* at the top level and nested, with void tags as pandoc writes them       *)
Documents ==
    { << StartTag("p"), Text(<<"x">>), EndTag("p") >>,
      << StartTag("p"), Text(<<"x">>), VoidTag("br", FALSE), Text(<<"y">>), EndTag("p") >>,
      << StartTag("p"), Text(<<"x">>), EndTag("p"),
         StartTag("think"), StartTag("p"), Text(<<"y">>), EndTag("p"), EndTag("think"),
         StartTag("p"), Text(<<"z">>), EndTag("p") >>,
      << StartTag("p"), StartTag("think"), Text(<<"y">>), VoidTag("br", FALSE),
         EndTag("think"), EndTag("p"), VoidTag("br", FALSE) >> }

(* lines 259-260 *)
A_NoBrowser ==
    /\ variant = "coding_assistant"
    /\ pc = "render"
    /\ \E no_browser \in BOOLEAN :
        /\ ca' = [ca EXCEPT !.no_browser = Some(no_browser)]
        /\ pc' = IF no_browser THEN "done" ELSE "markdown"
    /\ UNCHANGED <<variant, clock, stream, tr>>

(* lines 262-277 *)
A_Markdown ==
    /\ variant = "coding_assistant"
    /\ pc = "markdown"
    /\ ca' = [ca EXCEPT !.markdown_file = 
                 Some(<<"**Model:**", "## Prompt", "## Response">> \o ca.collected_response)]
    /\ pc' = "pandoc"
    /\ UNCHANGED <<variant, clock, stream, tr>>

(* lines 279-307: pandoc runs to an exit status, or subprocess.run raises  *)
(* (no pandoc on the path) and the with statements delete both files       *)
A_Pandoc ==
    /\ variant = "coding_assistant"
    /\ pc = "pandoc"
    /\ \E ran \in BOOLEAN, returncode \in {0, 1}, stdout \in Documents :
        IF ran
        THEN /\ ca' = [ca EXCEPT !.html_file = Some(<<>>),
                                  !.output = Some([returncode |-> returncode,
                                                   stdout     |-> stdout])]
             /\ pc' = "returncode"
        ELSE /\ ca' = [ca EXCEPT !.markdown_file = None, !.html_file = None]
             /\ pc' = "raised"
    /\ UNCHANGED <<variant, clock, stream, tr>>

(* A_Rewrite without the test of line 309 *)
A_Rewrite_Unchecked ==
    /\ variant = "coding_assistant"
    /\ pc = "returncode"
    /\ ca' = [ca EXCEPT !.html_file =
                Some(replace_think_tag(Val(ca.output).stdout, ca.thinking_time))]
    /\ pc' = "browser"
    /\ UNCHANGED <<variant, clock, stream, tr>>

(* lines 309-312; on a failed pandoc the with statements end here *)
A_Rewrite ==
    /\ variant = "coding_assistant"
    /\ pc = "returncode"
    /\ IF Val(ca.output).returncode = 0
       THEN /\ ca' = [ca EXCEPT !.html_file =
                        Some(replace_think_tag(Val(ca.output).stdout, ca.thinking_time))]
            /\ pc' = "browser"
       ELSE /\ ca' = [ca EXCEPT !.markdown_file = None, !.html_file = None]
            /\ pc' = "done"
    /\ UNCHANGED <<variant, clock, stream, tr>>

(* A_Browser with temporary files made with delete=False *)
A_Browser_KeepFiles ==
    /\ variant = "coding_assistant"
    /\ pc = "browser"
    /\ \E ran \in BOOLEAN :
        /\ ca' = [ca EXCEPT !.browser = IF ran THEN ca.html_file ELSE None]
        /\ pc' = IF ran THEN "done" ELSE "raised"
    /\ UNCHANGED <<variant, clock, stream, tr>>

(* lines 314-316 and the end of both with statements; chromium's own exit  *)
(* status is not looked at, a missing chromium raises                      *)
A_Browser ==
    /\ variant = "coding_assistant"
    /\ pc = "browser"
    /\ \E ran \in BOOLEAN :
        /\ ca' = [ca EXCEPT !.browser = IF ran THEN ca.html_file ELSE None,
                            !.markdown_file = None,
                            !.html_file = None]
        /\ pc' = IF ran THEN "done" ELSE "raised"
    /\ UNCHANGED <<variant, clock, stream, tr>>

----------------------------------------------------------------------------

Next ==
    \/ Tick
    \/ T_Request
    \/ T_Next
    \/ T_ResponseStart
    \/ T_ThinkOpen
    \/ T_ThinkClose
    \/ T_Print
    \/ T_End
    \/ T_Metrics
    \/ A_Request
    \/ A_Next
    \/ A_ResponseStart
    \/ A_ThinkOpen
    \/ A_ThinkClose
    \/ A_Print
    \/ A_End
    \/ A_Metrics

Spec == Init /\ [][Next]_vars

----------------------------------------------------------------------------
(* Both programs side by side: main() of translate.py and main() of        *)
(* coding_assistant.py are given the same fragments and read the same      *)
(* clock; each step executes the same statement group in both, on tr and   *)
(* on ca, up to the end of the stream.                                     *)

InitBoth ==
    /\ variant = "both"
    /\ pc = "request"
    /\ clock = 0
    /\ stream = <<>>
    /\ tr = TrInit
    /\ ca = CaInit

(* translate.py 93-108, coding_assistant.py 198-214 *)
B_Request ==
    /\ variant = "both"
    /\ pc = "request"
    /\ tr' = [tr EXCEPT !.start_time = Some(Now)]
    /\ ca' = [ca EXCEPT !.start_time = Some(Now)]
    /\ pc' = "loop"
    /\ UNCHANGED <<variant, clock, stream>>

(* translate.py 109-118, coding_assistant.py 215-222 *)
B_Next ==
    /\ variant = "both"
    /\ pc = "loop"
    /\ Len(stream) < MaxChunks
    /\ \E c \in Chunks :
         /\ stream' = Append(stream, c)
         /\ IF ~Truthy(c)
            THEN /\ pc' = "end"
                 /\ UNCHANGED <<tr, ca>>
            ELSE /\ tr' = [tr EXCEPT !.thinking_state = T_Lag(tr.thinking_state),
                                     !.usage = c.usage]
                 /\ ca' = [ca EXCEPT !.usage = c.usage]
                 /\ pc' = IF HasContent(c) THEN "response_start" ELSE "loop"
    /\ UNCHANGED <<variant, clock>>

(* translate.py 119-120, coding_assistant.py 223-224 *)
B_ResponseStart ==
    /\ variant = "both"
    /\ pc = "response_start"
    /\ tr' = IF tr.response_start = None
             THEN [tr EXCEPT !.response_start = Some(Now)]
             ELSE tr
    /\ ca' = IF ca.response_start = None
             THEN [ca EXCEPT !.response_start = Some(Now)]
             ELSE ca
    /\ pc' = "think_open"
    /\ UNCHANGED <<variant, clock, stream>>

(* translate.py 122-125, coding_assistant.py 225-226 *)
B_ThinkOpen ==
    /\ variant = "both"
    /\ pc = "think_open"
    /\ tr' = IF Contains(OPEN, Content(chunk)) /\ tr.think_start = None
             THEN [tr EXCEPT !.think_start = Some(Now),
                             !.thinking_state = T_OnOpen(tr.thinking_state)]
             ELSE tr
    /\ ca' = IF Contains(OPEN, Content(chunk)) /\ ca.think_start = None
             THEN [ca EXCEPT !.think_start = Some(Now)]
             ELSE ca
    /\ pc' = "think_close"
    /\ UNCHANGED <<variant, clock, stream>>

(* translate.py 127-130, coding_assistant.py 227-228 *)
B_ThinkClose ==
    /\ variant = "both"
    /\ pc = "think_close"
    /\ tr' = IF Contains(CLOSE, Content(chunk)) /\ tr.think_end = None
             THEN [tr EXCEPT !.think_end = Some(Now),
                             !.thinking_state = T_OnClose(tr.thinking_state)]
             ELSE tr
    /\ ca' = IF Contains(CLOSE, Content(chunk)) /\ ca.think_end = None
             THEN [ca EXCEPT !.think_end = Some(Now)]
             ELSE ca
    /\ pc' = "print"
    /\ UNCHANGED <<variant, clock, stream>>

(* B_Print where translate.py prints the text without the markers *)
B_Print_Strip ==
    /\ variant = "both"
    /\ pc = "print"
    /\ tr' = IF T_Echo(tr.thinking_state)
             THEN [tr EXCEPT !.stdout = tr.stdout \o
                     SelectSeq(Content(chunk), LAMBDA piece : piece \notin {OPEN, CLOSE})]
             ELSE tr
    /\ ca' = [ca EXCEPT !.stdout = ca.stdout \o Content(chunk),
                        !.collected_response = ca.collected_response \o Content(chunk)]
    /\ pc' = "loop"
    /\ UNCHANGED <<variant, clock, stream>>

(* translate.py 132-133, coding_assistant.py 229-230 *)
B_Print ==
    /\ variant = "both"
    /\ pc = "print"
    /\ tr' = IF T_Echo(tr.thinking_state)
             THEN [tr EXCEPT !.stdout = tr.stdout \o Content(chunk)]
             ELSE tr
    /\ ca' = [ca EXCEPT !.stdout = ca.stdout \o Content(chunk),
                        !.collected_response = ca.collected_response \o Content(chunk)]
    /\ pc' = "loop"
    /\ UNCHANGED <<variant, clock, stream>>

(* translate.py 134-143, coding_assistant.py 231-240 *)
B_End ==
    /\ variant = "both"
    /\ pc \in {"loop", "end"}
    /\ LET set(l) == l.think_start # None /\ l.think_end # None
       IN /\ tr' = [tr EXCEPT !.stdout = tr.stdout \o <<NEWLINE>>,
                              !.end_time = Some(Now),
                              !.response_start =
                                  IF tr.response_start = None
                                  THEN Some(Now)
                                  ELSE tr.response_start,
                              !.thinking_time =
                                  IF set(tr)
                                  THEN Val(tr.think_end) - Val(tr.think_start)
                                  ELSE 0]
          /\ ca' = [ca EXCEPT !.stdout = ca.stdout \o <<NEWLINE>>,
                              !.end_time = Some(Now),
                              !.response_start =
                                  IF ca.response_start = None
                                  THEN Some(Now)
                                  ELSE ca.response_start,
                              !.thinking_time =
                                  IF set(ca)
                                  THEN Some(Val(ca.think_end) - Val(ca.think_start))
                                  ELSE None]
    /\ pc' = "metrics"
    /\ UNCHANGED <<variant, clock, stream>>

NextBoth ==
    \/ Tick
    \/ B_Request
    \/ B_Next
    \/ B_ResponseStart
    \/ B_ThinkOpen
    \/ B_ThinkClose
    \/ B_Print
    \/ B_End

SpecBoth == InitBoth /\ [][NextBoth]_vars

----------------------------------------------------------------------------
(* The metrics statement on its own: runs that have received a text        *)
(* fragment and a final fragment, and have reached line 145 (242) with     *)
(* stamps that are pp and gen apart.                                       *)

(* usage counters the final fragment may report *)
Usages ==
    { Usage, [total_tokens |-> 10, prompt_tokens |-> 7, completion_tokens |-> 3] }

InitMetrics ==
    \E st \in 0..1, pp \in 0..MaxDuration, gen \in 0..MaxDuration,
       u \in {None} \cup { Some(x) : x \in Usages } :
        /\ variant \in {"translate", "coding_assistant"}
        /\ pc = "metrics"
        /\ clock = st + pp + gen
        /\ stream = <<TextChunk(<<"a">>, None), Chunk(<<>>, u)>>
        /\ tr = IF variant = "translate"
                THEN [TrInit EXCEPT !.start_time = Some(st),
                                    !.response_start = Some(st + pp),
                                    !.end_time = Some(st + pp + gen),
                                    !.usage = u,
                                    !.stdout = <<"a", NEWLINE>>]
                ELSE TrInit
        /\ ca = IF variant = "coding_assistant"
                THEN [CaInit EXCEPT !.start_time = Some(st),
                                    !.response_start = Some(st + pp),
                                    !.end_time = Some(st + pp + gen),
                                    !.usage = u,
                                    !.collected_response = <<"a">>,
                                    !.stdout = <<"a", NEWLINE>>]
                ELSE CaInit

NextMetrics ==
    \/ T_Metrics
    \/ A_Metrics

SpecMetrics == InitMetrics /\ [][NextMetrics]_vars

(* The rendering alone: the runs of coding_assistant.py as line 257 leaves *)
(* them, with no thinking block, an open one, a closed one that took any   *)
(* time up to MaxSeconds, one whose markers came in reverse order, and one *)
(* whose last fragment reported usage, so that metrics were printed.       *)
RenderRuns ==
    { [ content |-> << <<"a">> >>, usage |-> None, response_start |-> 0,
        think_start |-> None, think_end |-> None, end_time |-> 0 ],
      [ content |-> << <<"a">> >>, usage |-> Some(Usage), response_start |-> 1,
        think_start |-> None, think_end |-> None, end_time |-> 2 ],
      [ content |-> << <<OPEN>> >>, usage |-> None, response_start |-> 0,
        think_start |-> Some(0), think_end |-> None, end_time |-> 0 ],
      [ content |-> << <<"b", CLOSE>>, <<OPEN>> >>, usage |-> None,
        response_start |-> 0, think_start |-> Some(1), think_end |-> Some(0),
        end_time |-> 1 ] }
    \cup
    { [ content |-> << <<OPEN>>, <<"b", CLOSE>> >>, usage |-> None,
        response_start |-> 0, think_start |-> Some(0), think_end |-> Some(d),
        end_time |-> d ] : d \in 0..MaxSeconds }

InitRender ==
    \E run \in RenderRuns :
        LET text == IF Len(run.content) = 1
                    THEN run.content[1]
                    ELSE run.content[1] \o run.content[2]
            l    == [CaInit EXCEPT
                      !.start_time = Some(0),
                      !.response_start = Some(run.response_start),
                      !.think_start = run.think_start,
                      !.think_end = run.think_end,
                      !.end_time = Some(run.end_time),
                      !.usage = run.usage,
                      !.thinking_time =
                          IF run.think_start # None /\ run.think_end # None
                          THEN Some(Val(run.think_end) - Val(run.think_start))
                          ELSE None,
                      !.collected_response = text,
                      !.stdout = text \o <<NEWLINE>>]
        IN /\ variant = "coding_assistant"
           /\ pc = "render"
           /\ clock = run.end_time
           /\ stream = [i \in 1..Len(run.content) |-> TextChunk(run.content[i], None)]
                       \o (IF run.usage = None THEN <<>> ELSE <<Chunk(<<>>, run.usage)>>)
           /\ tr = TrInit
           /\ ca = IF run.usage = None
                   THEN l
                   ELSE [l EXCEPT !.stderr =
                          << [ total_tokens      |-> Val(run.usage).total_tokens,
                               prompt_tokens     |-> Val(run.usage).prompt_tokens,
                               completion_tokens |-> Val(run.usage).completion_tokens,
                               total_time        |-> total_time(l),
                               prompt_speed      |-> Rate(Val(run.usage).prompt_tokens, pp_time(l)),
                               generation_speed  |-> Rate(Val(run.usage).completion_tokens, gen_time(l)) ] >>]

NextRender ==
    \/ A_NoBrowser
    \/ A_Markdown
    \/ A_Pandoc
    \/ A_Rewrite
    \/ A_Browser

SpecRender == InitRender /\ [][NextRender]_vars

----------------------------------------------------------------------------
(* The stream seen so far, as the properties speak of it *)

(* the text a fragment carries: none without choices or with null content *)
TextOf(c) == IF HasContent(c) THEN Content(c) ELSE <<>>

(* fragment k carries text that contains the marker *)
HasMarker(k, marker) ==
    /\ HasContent(stream[k])
    /\ Contains(marker, Content(stream[k]))

(* index of the first fragment that contains the marker, 0 when none does *)
First(marker) ==
    IF \E k \in 1..Len(stream) : HasMarker(k, marker)
    THEN CHOOSE k \in 1..Len(stream) :
            /\ HasMarker(k, marker)
            /\ \A h \in 1..(k - 1) : ~HasMarker(h, marker)
    ELSE 0

FirstOpen == First(OPEN)

FirstClose == First(CLOSE)

InBody == pc \in {"response_start", "think_open", "think_close", "print"}

AfterEnd == ~InBody /\ pc \notin {"request", "loop", "end"}

(* the metrics statement has been executed *)
AfterMetrics == AfterEnd /\ pc # "metrics"

(* number of fragments whose processing is complete *)
Processed == IF InBody THEN Len(stream) - 1 ELSE Len(stream)

(* concatenation, in arrival order, of the text of fragments 1..n that are *)
(* in the index set keep                                                   *)
RECURSIVE Joined(_, _)
Joined(n, keep) ==
    IF n = 0
    THEN <<>>
    ELSE Joined(n - 1, keep) \o (IF n \in keep THEN TextOf(stream[n]) ELSE <<>>)

(* what print() at the end of the loop adds *)
FinalNewline == IF AfterEnd THEN <<NEWLINE>> ELSE <<>>

Translate == variant = "translate"

Assistant == variant = "coding_assistant"

----------------------------------------------------------------------------
(* C1: in translate.py, when the first "<think>" is in fragment i and the  *)
(* first "</think>" in fragment j >= i, standard output holds none of the  *)
(* text of fragments i..j, and holds the text of every processed fragment  *)
(* after j (and of those before i), verbatim and in arrival order.         *)
C1_SuppressedSpan ==
    (Translate /\ FirstOpen # 0 /\ FirstClose >= FirstOpen)
        => tr.stdout =
             Joined(Processed,
                    (1..(FirstOpen - 1)) \cup ((FirstClose + 1)..Len(stream)))
             \o FinalNewline

(* an answer fragment after the closing fragment has been echoed *)
C1_Witness ==
    /\ Translate
    /\ pc = "done"
    /\ FirstOpen # 0
    /\ FirstClose > FirstOpen
    /\ Len(stream) > FirstClose
    /\ TextOf(stream[FirstClose + 1]) # <<>>
    /\ tr.stdout # <<NEWLINE>>

(* C2: in translate.py, while no fragment contains "<think>" the state is  *)
(* PRE_THINKING (also when fragments contain "</think>") and standard      *)
(* output is the concatenation of all fragment texts in arrival order.     *)
C2_NoOpenPassThrough ==
    (Translate /\ FirstOpen = 0)
        => /\ tr.thinking_state = PRE_THINKING
           /\ tr.stdout = Joined(Processed, 1..Len(stream)) \o FinalNewline

(* a closing marker without any opening marker has been processed *)
C2_Witness ==
    /\ Translate
    /\ pc = "done"
    /\ FirstOpen = 0
    /\ FirstClose # 0
    /\ Len(stream) > FirstClose

(* C3: in coding_assistant.py, after any prefix of the stream, standard    *)
(* output and collected_response both are the concatenation, in arrival    *)
(* order, of the text of every fragment processed so far.                  *)
C3_PassThrough ==
    Assistant
        => /\ ca.collected_response = Joined(Processed, 1..Len(stream))
           /\ ca.stdout = Joined(Processed, 1..Len(stream)) \o FinalNewline

(* marker text and plain text have both been echoed and collected *)
C3_Witness ==
    /\ Assistant
    /\ pc = "loop"
    /\ Len(stream) = 3
    /\ FirstOpen = 1
    /\ FirstClose = 2
    /\ TextOf(stream[3]) = <<"a">>

(* C4: every change of thinking_state is one of PRE_THINKING -> THINKING,  *)
(* THINKING -> END_THINKING, END_THINKING -> DONE_THINKING; the state      *)
(* never decreases and DONE_THINKING is never left.                        *)
C4_Monotonic ==
    [][ /\ tr.thinking_state' >= tr.thinking_state
        /\ (tr.thinking_state' # tr.thinking_state
              => \/ tr.thinking_state = PRE_THINKING /\ tr.thinking_state' = THINKING
                 \/ tr.thinking_state = THINKING /\ tr.thinking_state' = END_THINKING
                 \/ tr.thinking_state = END_THINKING /\ tr.thinking_state' = DONE_THINKING)
        /\ (tr.thinking_state = DONE_THINKING => tr.thinking_state' = DONE_THINKING)
      ]_vars

(* DONE_THINKING has been reached and a further fragment was processed *)
C4_Witness ==
    /\ Translate
    /\ pc = "loop"
    /\ tr.thinking_state = DONE_THINKING
    /\ FirstClose # 0
    /\ Len(stream) > FirstClose + 1

(* C5: from END_THINKING, taking the next fragment gives DONE_THINKING     *)
(* whatever the fragment carries; END_THINKING lasts only while the        *)
(* fragment that closed the thinking block is the last one taken; and it   *)
(* is still the state when the stream ends right after that fragment.      *)
C5_OneFragmentLag ==
    [][ /\ (Translate /\ tr.thinking_state = END_THINKING /\ Len(stream') > Len(stream))
             => tr.thinking_state' = DONE_THINKING
        /\ (Translate /\ tr.thinking_state = END_THINKING /\ Len(stream') = Len(stream))
             => tr.thinking_state' = END_THINKING
        /\ (Translate /\ tr.thinking_state' = END_THINKING)
             => Len(stream') = FirstClose'
      ]_vars

(* END_THINKING was left on a fragment that carries no text *)
C5_Witness ==
    /\ Translate
    /\ pc = "loop"
    /\ tr.thinking_state = DONE_THINKING
    /\ Len(stream) = FirstClose + 1
    /\ ~HasContent(chunk)

(* C6 as stated: in translate.py the fragment on which think_end is        *)
(* stamped, the first one containing "</think>", is never written to       *)
(* standard output, for every fragment sequence.                           *)
C6_ClosingFragmentNeverEchoed ==
    [][ (Translate /\ pc = "print" /\ Len(stream) = FirstClose)
          => tr.stdout' = tr.stdout
      ]_vars

(* C6 amended: the fragment on which think_end is stamped is not written   *)
(* to standard output when the first "<think>" arrived in that fragment or *)
(* in an earlier one.                                                      *)
C6_ClosingFragmentSuppressed ==
    [][ (Translate /\ pc = "print" /\ Len(stream) = FirstClose /\ FirstOpen # 0)
          => /\ tr.think_end # None
             /\ tr.stdout' = tr.stdout
      ]_vars

(* the closing fragment of an opened thinking block has been processed *)
C6_Witness ==
    /\ Translate
    /\ pc = "loop"
    /\ FirstOpen # 0
    /\ FirstOpen < FirstClose
    /\ Len(stream) = FirstClose
    /\ tr.think_end # None

(* C7: a fragment that contains "<think>" after an earlier fragment did    *)
(* changes neither think_start nor the state at lines 122-125, one that    *)
(* contains "</think>" after an earlier fragment did changes neither       *)
(* think_end nor the state at lines 127-130 (in coding_assistant.py:       *)
(* neither timestamp), and in DONE_THINKING the fragment is echoed.        *)
C7_FirstSightingOnly ==
    [][ /\ (Translate /\ pc = "think_open" /\ FirstOpen \in 1..(Len(stream) - 1))
             => /\ tr.think_start' = tr.think_start
                /\ tr.thinking_state' = tr.thinking_state
        /\ (Translate /\ pc = "think_close" /\ FirstClose \in 1..(Len(stream) - 1))
             => /\ tr.think_end' = tr.think_end
                /\ tr.thinking_state' = tr.thinking_state
        /\ (Translate /\ pc = "print" /\ pc' = "loop"
                      /\ tr.thinking_state = DONE_THINKING)
             => tr.stdout' = tr.stdout \o Content(chunk)
        /\ (Assistant /\ pc = "think_open" /\ FirstOpen \in 1..(Len(stream) - 1))
             => ca.think_start' = ca.think_start
        /\ (Assistant /\ pc = "think_close" /\ FirstClose \in 1..(Len(stream) - 1))
             => ca.think_end' = ca.think_end
      ]_vars

(* a second "<think>" arrived in DONE_THINKING, later than the stamp, and  *)
(* was echoed                                                              *)
C7_Witness ==
    /\ Translate
    /\ pc = "loop"
    /\ tr.thinking_state = DONE_THINKING
    /\ FirstOpen \in 1..(Len(stream) - 1)
    /\ HasMarker(Len(stream), OPEN)
    /\ Val(tr.think_start) < clock

(* the five timestamps of a run *)
Stamps(l) ==
    <<l.start_time, l.response_start, l.think_start, l.think_end, l.end_time>>

(* C8: a timestamp that holds a value is changed by no later step, in      *)
(* translate.py and in coding_assistant.py.                                *)
C8_FirstWriteWins ==
    [][ \A i \in 1..5 :
          /\ Stamps(tr)[i] # None => Stamps(tr')[i] = Stamps(tr)[i]
          /\ Stamps(ca)[i] # None => Stamps(ca')[i] = Stamps(ca)[i]
      ]_vars

(* a run of coding_assistant.py ended after the clock had moved past       *)
(* stamps set on earlier fragments, with both markers seen twice           *)
C8_Witness ==
    /\ Assistant
    /\ AfterEnd
    /\ FirstOpen # 0
    /\ FirstClose # 0
    /\ \E k \in (FirstOpen + 1)..Len(stream) : HasMarker(k, OPEN)
    /\ \E k \in (FirstClose + 1)..Len(stream) : HasMarker(k, CLOSE)
    /\ Val(ca.response_start) < Val(ca.end_time)
    /\ Val(ca.think_start) < Val(ca.end_time)

(* the locals of the program that runs *)
Locals == IF Translate THEN tr ELSE ca

(* C9: at the end of every run, start_time <= response_start <=            *)
(* think_start <= think_end <= end_time for every pair that is set.        *)
C9_StampsOrdered ==
    AfterEnd
        => \A i, j \in 1..5 :
              (i < j /\ Stamps(Locals)[i] # None /\ Stamps(Locals)[j] # None)
                 => Val(Stamps(Locals)[i]) <= Val(Stamps(Locals)[j])

(* C10: when the first "</think>" arrives in an earlier fragment than the  *)
(* first "<think>", no thinking duration is derived from the two stamps:   *)
(* thinking_time is never negative (0 in translate.py, None in             *)
(* coding_assistant.py).                                                   *)
C10_NoDurationFromReorderedMarkers ==
    (AfterEnd /\ FirstClose # 0 /\ FirstClose < FirstOpen)
        => /\ Translate => tr.thinking_time >= 0
           /\ Assistant => (ca.thinking_time = None \/ Val(ca.thinking_time) >= 0)

(* some fragment of the stream carries content that is not None *)
AnyContent == \E k \in 1..Len(stream) : HasContent(stream[k])

(* C11: when "<think>" was seen and the stream ends without "</think>",    *)
(* the run completes without raising, think_end is unset and the thinking  *)
(* duration is undefined (0 in translate.py, None in coding_assistant.py); *)
(* in translate.py the final state is THINKING.                            *)
C11_OpenNeverClosed ==
    (AfterMetrics /\ FirstOpen # 0 /\ FirstClose = 0)
        => /\ pc # "raised"
           /\ Locals.think_end = None
           /\ Translate => (tr.thinking_time = 0 /\ tr.thinking_state = THINKING)
           /\ Assistant => ca.thinking_time = None

(* C12 as stated: a fragment whose text is the empty string does not stamp *)
(* response_start.                                                         *)
C12_EmptyTextDoesNotStamp ==
    [][ (pc = "response_start" /\ Content(chunk) = <<>>)
          => Locals'.response_start = Locals.response_start
      ]_vars

(* C12 amended: inside the loop response_start is stamped, with the        *)
(* current time, exactly on the first fragment whose content is not None,  *)
(* the empty string included; a fragment without choices or with null      *)
(* content does not stamp it.                                              *)
C12_FirstContentStamps ==
    [][ ~AfterEnd'
          => /\ (Locals.response_start = None /\ Locals'.response_start # None)
                  <=> /\ pc = "response_start"
                      /\ pc' = "think_open"
                      /\ HasContent(chunk)
                      /\ \A k \in 1..(Len(stream) - 1) : ~HasContent(stream[k])
             /\ (Locals.response_start = None /\ Locals'.response_start # None)
                  => Locals'.response_start = Some(clock)
      ]_vars

(* an empty string stamped response_start after a fragment with null       *)
(* content did not                                                         *)
C12_Witness ==
    /\ pc = "think_open"
    /\ Len(stream) = 2
    /\ Len(stream[1].choices) = 1
    /\ ~HasContent(stream[1])
    /\ HasContent(stream[2])
    /\ Content(stream[2]) = <<>>
    /\ Locals.response_start = Some(clock)
    /\ clock > Val(Locals.start_time)

(* C13: end_time is stamped once, at the statement after the loop, when no *)
(* fragment is left, and no fragment is taken afterwards; when no fragment *)
(* stamped response_start it is set to end_time, so pp_time is             *)
(* end_time - start_time and gen_time is 0.                                *)
C13_StreamEndStamp ==
    [][ /\ Locals.end_time # None => Locals'.end_time = Locals.end_time
        /\ (Locals.end_time = None /\ Locals'.end_time # None)
             => /\ pc = "loop"
                /\ pc' = "metrics"
                /\ Locals'.end_time = Some(clock)
        /\ AfterEnd => stream' = stream
        /\ AfterEnd' => Locals'.end_time # None
        /\ (AfterEnd' /\ ~AnyContent')
             => /\ Locals'.response_start = Locals'.end_time
                /\ pp_time(Locals') = Val(Locals'.end_time) - Val(Locals'.start_time)
                /\ gen_time(Locals') = 0
      ]_vars

(* a stream of two fragments without content ended later than it began *)
C13_Witness ==
    /\ AfterEnd
    /\ Len(stream) = 2
    /\ ~AnyContent
    /\ Locals.response_start = Locals.end_time
    /\ Val(Locals.end_time) > Val(Locals.start_time)

(* C14: computing the rates never raises, for every stream and clock. *)
C14_RatesNeverRaise == pc # "raised"

(* the last fragment taken carried usage *)
LastUsage == Len(stream) > 0 /\ stream[Len(stream)].usage # None

(* C15: the metrics block is written if and only if the last fragment      *)
(* processed carried usage, with the counters of that fragment; without    *)
(* usage the run completes and writes no metrics block.                    *)
C15_MetricsIffLastUsage ==
    AfterMetrics
        => /\ Len(Locals.stderr) = 1 <=> LastUsage
           /\ Len(Locals.stderr) = 1
                => /\ Locals.stderr[1].total_tokens = Val(chunk.usage).total_tokens
                   /\ Locals.stderr[1].prompt_tokens = Val(chunk.usage).prompt_tokens
                   /\ Locals.stderr[1].completion_tokens = Val(chunk.usage).completion_tokens
           /\ ~LastUsage => pc # "raised"

(* C17: taking a fragment without content and without usage completes the  *)
(* loop iteration and changes neither standard output, nor                 *)
(* collected_response, nor any timestamp, in both programs.                *)
C17_HeartbeatNoOp ==
    [][ (pc = "loop" /\ Len(stream') = Len(stream) + 1
           /\ ~HasContent(chunk') /\ chunk'.usage = None)
          => /\ pc' = "loop"
             /\ tr'.stdout = tr.stdout
             /\ ca'.stdout = ca.stdout
             /\ ca'.collected_response = ca.collected_response
             /\ Stamps(tr') = Stamps(tr)
             /\ Stamps(ca') = Stamps(ca)
      ]_vars

(* a keepalive was the first fragment and another one followed text *)
C17_Witness ==
    /\ pc = "loop"
    /\ Len(stream) = 3
    /\ stream[1] = Chunk(<<>>, None)
    /\ TextOf(stream[2]) # <<>>
    /\ stream[3] = Chunk(<<Choice(None)>>, None)
    /\ Locals.response_start # None
    /\ Locals.stdout = TextOf(stream[2])

Abs(x) == IF x < 0 THEN -x ELSE x

(* C16: a metrics block reports prompt_tokens / (response_start -          *)
(* start_time) and completion_tokens / (end_time - response_start), each   *)
(* to the nearest hundredth, and a total time that is the sum of the two   *)
(* durations; 100 prompt tokens in 2 s and 50 completion tokens in 5 s     *)
(* give 50.00 and 10.00 tokens/s.                                          *)
C16_MetricsDerivation ==
    (AfterMetrics /\ Len(Locals.stderr) = 1)
        => LET m   == Locals.stderr[1]
               u   == Val(chunk.usage)
               pp  == Val(Locals.response_start) - Val(Locals.start_time)
               gen == Val(Locals.end_time) - Val(Locals.response_start)
           IN /\ 2 * Abs(m.prompt_speed * pp - 100 * u.prompt_tokens) <= pp
              /\ 2 * Abs(m.generation_speed * gen - 100 * u.completion_tokens) <= gen
              /\ m.total_time = pp + gen
              /\ (u.prompt_tokens = 100 /\ u.completion_tokens = 50 /\ pp = 2 /\ gen = 5)
                   => (m.prompt_speed = 5000 /\ m.generation_speed = 1000)

(* the block of the example has been written *)
C16_Witness ==
    /\ AfterMetrics
    /\ Len(Locals.stderr) = 1
    /\ Val(chunk.usage) = Usage
    /\ Val(Locals.response_start) - Val(Locals.start_time) = 2
    /\ Val(Locals.end_time) - Val(Locals.response_start) = 5
    /\ Locals.stderr[1].prompt_speed = 5000
    /\ Locals.stderr[1].generation_speed = 1000

(* The rendering path: what pandoc wrote, what replace_think_tag made of   *)
(* it (in the HTML file, once line 312 has run), and where the think       *)
(* element starts and ends in the bytes.                                   *)
html_data == Val(ca.output).stdout

Rewritten == Val(ca.html_file)

Rendering == pc = "browser"

ThinkStarts == { i \in 1..Len(html_data) : html_data[i] = StartTag("think") }

ThinkStart == CHOOSE i \in ThinkStarts : TRUE

ThinkEnd == CHOOSE j \in 1..Len(html_data) : html_data[j] = EndTag("think")

(* the text of the summary element of the rewritten document *)
SummaryLabel ==
    LET i == CHOOSE i \in 1..Len(Rewritten) : Rewritten[i] = StartTag("summary")
    IN Rewritten[i + 1].v

(* the duration between "(thought for " and ")" in the label *)
DurationShown == SubSeq(SummaryLabel, 4, Len(SummaryLabel) - 1)

Unit(value, unit) == IF value = 0 THEN <<>> ELSE Decimal(value) \o <<unit>>

(* C18: format_duration(s) for s >= 0 is "<s>s" when s < 60; "<m>m<r>s"    *)
(* without the seconds part when r = 0, when 60 <= s < 3600; and from 3600 *)
(* on "<h>h", "<m>m", "<r>s" joined, each zero-valued unit left out; 5 is  *)
(* "5s", 65 is "1m5s", 60 is "1m", 3661 is "1h1m1s" and 3600 is "1h".      *)
C18_FormatDuration ==
    (Rendering /\ ThinkStarts # {} /\ ca.thinking_time # None
       /\ Val(ca.thinking_time) >= 0)
        => LET s == Val(ca.thinking_time)
               h == s \div 3600
               m == (s % 3600) \div 60
               r == s % 60
           IN /\ s < 60 => DurationShown = Decimal(s) \o <<"s">>
              /\ (60 <= s /\ s < 3600)
                   => DurationShown = Decimal(m) \o <<"m">> \o Unit(r, "s")
              /\ s >= 3600
                   => DurationShown = Unit(h, "h") \o Unit(m, "m") \o Unit(r, "s")
              /\ s = 5 => DurationShown = <<"5", "s">>
              /\ s = 65 => DurationShown = <<"1", "m", "5", "s">>
              /\ s = 60 => DurationShown = <<"1", "m">>
              /\ s = 3661 => DurationShown = <<"1", "h", "1", "m", "1", "s">>
              /\ s = 3600 => DurationShown = <<"1", "h">>

(* a thinking block of 3661 s has been labelled *)
C18_Witness ==
    /\ Rendering
    /\ ThinkStarts # {}
    /\ ca.thinking_time = Some(3661)
    /\ DurationShown = <<"1", "h", "1", "m", "1", "s">>

(* C19: replace_think_tag on a document without a think element returns   *)
(* its input byte for byte, whether thinking_time is None or a number.     *)
C19_NoThinkByteIdentical ==
    (Rendering /\ ThinkStarts = {}) => Rewritten = html_data

(* a document with a <br> and no think element went through with a         *)
(* thinking time                                                           *)
C19_Witness ==
    /\ Rendering
    /\ ThinkStarts = {}
    /\ \E i \in 1..Len(html_data) : html_data[i] = VoidTag("br", FALSE)
    /\ ca.thinking_time = Some(65)
    /\ Rewritten = html_data

(* tokens as BeautifulSoup writes them back: the same elements and text in *)
(* the same order, a void tag in its closed form                           *)
AsWritten(html) ==
    [i \in 1..Len(html) |->
        IF html[i].k = "void" THEN VoidTag(html[i].v, TRUE) ELSE html[i]]

(* C20: replace_think_tag on a document with one think element returns the *)
(* document with a details element where the think element stood; its      *)
(* summary reads "Thought Process", followed by "(thought for              *)
(* <format_duration(thinking_time)>)" exactly when thinking_time is not    *)
(* None, its body holds what was inside the think element, and every       *)
(* element and text before and after is the document's own, in order.      *)
C20_ThinkReplaced ==
    (Rendering /\ Cardinality(ThinkStarts) = 1)
        => LET label == IF ca.thinking_time # None
                        THEN <<"U+1F4A1", " Thought Process", " (thought for ">>
                             \o format_duration(Val(ca.thinking_time)) \o <<")">>
                        ELSE <<"U+1F4A1", " Thought Process">>
           IN Rewritten =
                AsWritten(SubSeq(html_data, 1, ThinkStart - 1))
                \o << StartTag("details"), StartTag("summary"), Text(label),
                      EndTag("summary"), StartTag("div") >>
                \o AsWritten(SubSeq(html_data, ThinkStart + 1, ThinkEnd - 1))
                \o << EndTag("div"), EndTag("details") >>
                \o AsWritten(SubSeq(html_data, ThinkEnd + 1, Len(html_data)))

(* a think element inside a paragraph was replaced where it stood, without *)
(* a duration                                                              *)
C20_Witness ==
    /\ Rendering
    /\ Cardinality(ThinkStarts) = 1
    /\ ThinkStart = 2
    /\ ca.thinking_time = None
    /\ Rewritten[1] = StartTag("p")
    /\ Rewritten[2] = StartTag("details")
    /\ SummaryLabel = <<"U+1F4A1", " Thought Process">>
    /\ Rewritten[Len(Rewritten)] = VoidTag("br", TRUE)

(* the HTML file holds a document (it is empty from its creation to the    *)
(* write of line 311)                                                      *)
Written(l) == l.html_file # None /\ l.html_file # Some(<<>>)

(* pandoc has exited with a status other than 0 *)
Failed(l) == l.output # None /\ Val(l.output).returncode # 0

(* C21: in the rendering path the document is rewritten and written to the *)
(* HTML file, and the browser is launched, only after pandoc has exited    *)
(* with status 0; after any other status neither happens and main returns  *)
(* normally; no rendering step changes what was written to standard output *)
(* and standard error before.                                              *)
C21_ExitStatusChecked ==
    [][ /\ ca'.stdout = ca.stdout
        /\ ca'.stderr = ca.stderr
        /\ ((Written(ca') /\ ~Written(ca)) \/ pc' = "browser" \/ ca'.browser # ca.browser)
             => (ca.output # None /\ Val(ca.output).returncode = 0)
        /\ Failed(ca')
             => (~Written(ca') /\ ca'.browser = None /\ pc' \in {"returncode", "done"})
        /\ (pc = "returncode" /\ Failed(ca)) => pc' = "done"
      ]_vars

(* pandoc failed after the answer and its metrics had been printed, and    *)
(* main returned                                                           *)
C21_Witness ==
    /\ pc = "done"
    /\ Failed(ca)
    /\ ca.browser = None
    /\ ca.stdout = <<"a", NEWLINE>>
    /\ Len(ca.stderr) = 1

(* C23: the Markdown file and the HTML file exist only inside the          *)
(* rendering step: none remains when main has returned or raised (early    *)
(* return, failed pandoc, shown document, exception while rendering), and  *)
(* none is created when --no-browser is given.                             *)
C23_TemporaryFilesRemoved ==
    /\ (ca.markdown_file # None \/ ca.html_file # None)
         => /\ pc \in {"pandoc", "returncode", "browser"}
            /\ ca.no_browser = Some(FALSE)
    /\ ca.html_file # None => ca.markdown_file # None

(* the browser could not be started after the document had been written *)
C23_Witness ==
    /\ pc = "raised"
    /\ ca.no_browser = Some(FALSE)
    /\ ca.output # None
    /\ Val(ca.output).returncode = 0
    /\ ca.browser = None
    /\ ca.markdown_file = None
    /\ ca.html_file = None

(* the position that follows each position of the loop body *)
BodyNext ==
    [ response_start |-> "think_open", think_open |-> "think_close",
      think_close |-> "print", print |-> "loop" ]

(* C22: a run issues its request once and takes every fragment of the      *)
(* stream once, in arrival order: a fragment is taken only at the head of  *)
(* the loop and is appended to those taken before, its usage is kept and   *)
(* its body runs through once; the loop is never left by `break`, only at  *)
(* its head when the stream is exhausted; and coding_assistant.py has      *)
(* collected each fragment's text once, in order.                          *)
C22_EveryFragmentOnce ==
    [][ /\ pc # "request" => (pc' # "request" /\ Locals'.start_time = Locals.start_time)
        /\ pc # "end" /\ pc' # "end"
        /\ (pc' = "metrics" /\ pc # "metrics") => (pc = "loop" /\ stream' = stream)
        /\ stream' # stream
             => /\ pc = "loop"
                /\ Len(stream') = Len(stream) + 1
                /\ SubSeq(stream', 1, Len(stream)) = stream
                /\ Locals'.usage = chunk'.usage
                /\ pc' = IF HasContent(chunk') THEN "response_start" ELSE "loop"
        /\ (InBody /\ pc' # pc) => (stream' = stream /\ pc' = BodyNext[pc])
        /\ Assistant => ca.collected_response = Joined(Processed, 1..Len(stream))
      ]_vars

(* three text fragments were taken and collected, then the stream ended *)
C22_Witness ==
    /\ Assistant
    /\ pc = "render"
    /\ Len(stream) = 3
    /\ \A k \in 1..3 : HasContent(stream[k]) /\ Content(stream[k]) # <<>>
    /\ stream[1] # stream[2]
    /\ ca.collected_response = Content(stream[1]) \o Content(stream[2]) \o Content(stream[3])

(* C24: in translate.py the state and the timestamps agree after every    *)
(* fragment (indeed after every statement): the state is not PRE_THINKING  *)
(* exactly when think_start is set; in END_THINKING and DONE_THINKING      *)
(* think_end is set; and a fragment's text is written to standard output   *)
(* only in state PRE_THINKING or DONE_THINKING.                            *)
C24_StateMatchesStamps ==
    [][ Translate
          => /\ (tr'.thinking_state # PRE_THINKING) <=> (tr'.think_start # None)
             /\ tr'.thinking_state \in {END_THINKING, DONE_THINKING}
                  => tr'.think_end # None
             /\ (pc = "print" /\ tr'.stdout # tr.stdout)
                  => tr.thinking_state \in {PRE_THINKING, DONE_THINKING}
      ]_vars

(* a thinking block was opened and closed, and a later fragment written *)
C24_Witness ==
    /\ Translate
    /\ pc = "loop"
    /\ tr.thinking_state = DONE_THINKING
    /\ tr.think_start # None
    /\ tr.think_end # None
    /\ HasContent(chunk)
    /\ Content(chunk) # <<>>
    /\ tr.stdout = Content(chunk)

(* C25: in translate.py, when the first fragment with "</think>" came      *)
(* before the first fragment with "<think>", the state is THINKING from    *)
(* the opening fragment to the end of the run, whatever follows, and       *)
(* standard output holds the text of the fragments before the opening      *)
(* fragment and of no other.                                               *)
C25_ClosedBeforeOpened ==
    (Translate /\ FirstClose # 0 /\ FirstOpen > FirstClose)
        => /\ (Len(stream) > FirstOpen \/ pc \notin {"response_start", "think_open"})
                => tr.thinking_state = THINKING
           /\ tr.stdout = Joined(FirstOpen - 1, 1..Len(stream)) \o FinalNewline

(* a closing marker, an opening marker and a second closing marker came,   *)
(* and only the first fragment was written                                 *)
C25_Witness ==
    /\ Translate
    /\ pc = "done"
    /\ FirstClose = 1
    /\ FirstOpen = 2
    /\ Len(stream) = 3
    /\ HasMarker(3, CLOSE)
    /\ tr.thinking_state = THINKING
    /\ tr.stdout = Content(stream[1]) \o <<NEWLINE>>

(* C26: run side by side on the same fragments with the same clock, the   *)
(* two programs hold the same response_start, think_start and think_end    *)
(* after every step (so each is stamped on the same fragment with the same *)
(* value) and the same usage; and for some set of fragments, the standard  *)
(* output of translate.py is the text of exactly those fragments in        *)
(* arrival order, where that of coding_assistant.py is the text of all.    *)
C26_SideBySide ==
    variant = "both"
        => /\ tr.start_time = ca.start_time
           /\ tr.response_start = ca.response_start
           /\ tr.think_start = ca.think_start
           /\ tr.think_end = ca.think_end
           /\ tr.end_time = ca.end_time
           /\ tr.usage = ca.usage
           /\ ca.stdout = Joined(Processed, 1..Len(stream)) \o FinalNewline
           /\ \E keep \in SUBSET (1..Len(stream)) :
                tr.stdout = Joined(Processed, keep) \o FinalNewline

(* a thinking block was withheld by translate.py and echoed by             *)
(* coding_assistant.py, the answer after it was written by both, and the   *)
(* last fragment reported usage                                            *)
C26_Witness ==
    /\ variant = "both"
    /\ pc = "metrics"
    /\ Len(stream) = 3
    /\ FirstOpen = 1
    /\ FirstClose = 1
    /\ tr.think_end = ca.think_end
    /\ tr.think_end # None
    /\ tr.usage = Some(Usage)
    /\ ca.usage = Some(Usage)
    /\ tr.stdout = <<"a", NEWLINE>>
    /\ ca.stdout = <<OPEN, "c", CLOSE, "a", NEWLINE>>

====
